---- MODULE Spec2Model ----
(***************************************************************************)
(* cargo-mutants: the lab (src/src/lab.rs) and the output directory        *)
(* (src/src/output.rs).                                                    *)
(*                                                                         *)
(* Spec     one call of test_unmutated_then_all_mutants, step by step,     *)
(*          started in a parent directory left by earlier runs.            *)
(* SpecOut  repeated OutputDir::new / create_log in one parent directory.  *)
(***************************************************************************)
EXTENDS Integers, Naturals, Sequences, FiniteSets, TLC

(***************************************************************************)
(* Bounds of the model.                                                    *)
(***************************************************************************)
\* longest mutation list source_tree.mutations() returns
MaxMutations == 2
\* number of OutputDir::new calls of one behaviour of SpecOut
MaxRuns == 4

(***************************************************************************)
(* Durations.  std::time::Duration is (secs: u64, nanos: u32 < 10^9); the  *)
(* model keeps both fields.  Duration::MAX has secs = u64::MAX, which is   *)
(* outside the checker's integers: it is written with the largest integer  *)
(* the checker has, and no arithmetic is ever done on it.                  *)
(***************************************************************************)
NANOS_PER_SEC == 1000000000

Dur(s, n) == [secs |-> s, nanos |-> n]

DurationMAX == Dur(2147483647, NANOS_PER_SEC - 1)

\* Ord for Duration: by secs, then by nanos.
DurLeq(a, b) == a.secs < b.secs \/ (a.secs = b.secs /\ a.nanos <= b.nanos)

\* std::cmp::max
DurMax(a, b) == IF DurLeq(a, b) THEN b ELSE a

(***************************************************************************)
(* Single-precision arithmetic.  A finite non-negative f32 is m * 2^e with *)
(* m = 0, or 2^23 <= m < 2^24 (subnormals never occur for the values of    *)
(* the model).  Every operation rounds to nearest, ties to even.           *)
(***************************************************************************)
RECURSIVE Pow2(_)
Pow2(n) == IF n = 0 THEN 1 ELSE 2 * Pow2(n - 1)

RECURSIVE BitLen(_)
BitLen(x) == IF x = 0 THEN 0 ELSE 1 + BitLen(x \div 2)

F32Zero == [m |-> 0, e |-> 0]

\* x * 2^e, plus (when sticky) a nonzero amount below one unit of x, rounded
\* to 24 significant bits.  With sticky, x must have at least 26 bits.
RoundF32(x, e, sticky) ==
    LET len == BitLen(x) IN
    IF x = 0 THEN F32Zero
    ELSE IF len <= 24 THEN [m |-> x * Pow2(24 - len), e |-> e - (24 - len)]
    ELSE LET s    == len - 24
             q    == x \div Pow2(s)
             r    == x % Pow2(s)
             half == Pow2(s - 1)
             up   == \/ r > half
                     \/ r = half /\ sticky
                     \/ r = half /\ ~sticky /\ q % 2 = 1
             q2   == IF up THEN q + 1 ELSE q
         IN IF q2 = Pow2(24) THEN [m |-> Pow2(23), e |-> e + s + 1]
            ELSE [m |-> q2, e |-> e + s]

\* `n as f32` for an unsigned integer below 2^31
IntToF32(n) == RoundF32(n, 0, FALSE)

\* a + b
F32Add(a, b) ==
    IF a.m = 0 THEN b
    ELSE IF b.m = 0 THEN a
    ELSE LET hi == IF a.e >= b.e THEN a ELSE b
             lo == IF a.e >= b.e THEN b ELSE a
             d  == hi.e - lo.e
             \* three extra bits below hi's last place; lo is shifted into
             \* them and what falls off is kept as a sticky bit
             lo8     == lo.m * 8
             shifted == IF d >= 27 THEN 0 ELSE lo8 \div Pow2(d)
             lost    == IF d >= 27 THEN TRUE ELSE lo8 % Pow2(d) # 0
         IN RoundF32(hi.m * 8 + shifted, hi.e - 3, lost)

\* a * b, the 48-bit product of the mantissas taken in 12-bit halves
F32Mul(a, b) ==
    IF a.m = 0 \/ b.m = 0 THEN F32Zero
    ELSE LET ah == a.m \div 4096
             al == a.m % 4096
             bh == b.m \div 4096
             bl == b.m % 4096
             low  == al * bl
             mid  == ah * bl + al * bh + (low \div 4096)
             high == ah * bh + (mid \div 4096)
             \* product = high * 2^24 + rest, rest < 2^24
             rest == (mid % 4096) * 4096 + (low % 4096)
         IN RoundF32(high * 8 + (rest \div Pow2(21)), a.e + b.e + 21,
                     rest % Pow2(21) # 0)

\* a / b by long division: 26 quotient bits and the remainder as sticky
RECURSIVE DivBits(_, _, _, _)
DivBits(r, b, q, k) ==
    IF k = 0 THEN <<q, r>>
    ELSE LET r2 == 2 * r IN
         IF r2 >= b THEN DivBits(r2 - b, b, 2 * q + 1, k - 1)
         ELSE DivBits(r2, b, 2 * q, k - 1)

F32Div(a, b) ==
    IF a.m = 0 THEN F32Zero
    ELSE LET qr == DivBits(a.m % b.m, b.m, a.m \div b.m, 26)
         IN RoundF32(qr[1], a.e - b.e - 26, qr[2] # 0)

(***************************************************************************)
(* Duration <-> f32, as core::time does them.                              *)
(***************************************************************************)
\* Duration::as_secs_f32: (secs as f32) + (nanos as f32) / (NANOS_PER_SEC as f32)
as_secs_f32(d) ==
    F32Add(IntToF32(d.secs), F32Div(IntToF32(d.nanos), IntToF32(NANOS_PER_SEC)))

\* 5^9: NANOS_PER_SEC = 2^9 * 5^9, so NANOS_PER_SEC * t >> k is
\* FiveToNine * t >> (k - 9), with the same bits shifted out.
FiveToNine == 1953125

\* bit i of the product x * FiveToNine (x < 2^24), kept in 12-bit limbs
ProductLimbs(x) ==
    LET xh == x \div 4096
        xl == x % 4096
        ch == FiveToNine \div 4096
        cl == FiveToNine % 4096
        p0 == xl * cl
        p1 == xh * cl + xl * ch + (p0 \div 4096)
        p2 == xh * ch + (p1 \div 4096)
    IN <<p0 % 4096, p1 % 4096, p2 % 4096, p2 \div 4096>>

LimbBit(limbs, i) ==
    IF i < 0 \/ i >= 48 THEN 0 ELSE (limbs[(i \div 12) + 1] \div Pow2(i % 12)) % 2

RECURSIVE LimbsFrom(_, _, _)
\* the product shifted right by t: bits t..47
LimbsFrom(limbs, t, i) ==
    IF i >= 48 THEN 0 ELSE LimbBit(limbs, i) + 2 * LimbsFrom(limbs, t, i + 1)

\* (x * NANOS_PER_SEC) >> (t + 9), rounded to nearest, ties to even:
\* nanos, rem_msb, is_tie and is_even of try_from_secs
NanosRounded(x, t) ==
    LET limbs    == ProductLimbs(x)
        nanos    == LimbsFrom(limbs, t, t)
        msb      == LimbBit(limbs, t - 1) = 1
        below    == \E i \in 0..(t - 2) : LimbBit(limbs, i) = 1
        is_tie   == msb /\ ~below
        is_even  == nanos % 2 = 0
        add_ns   == msb /\ ~(is_even /\ is_tie)
    IN IF add_ns THEN nanos + 1 ELSE nanos

\* Duration::from_secs_f32 (try_from_secs!, mantissa_bits = 23): exp is the
\* unbiased exponent of the float, f.e + 23 here; (mant << exp) & MANT_MASK is
\* written (mant % 2^(23 - exp)) << exp, which never leaves 32 bits.
from_secs_f32(f) ==
    LET exp == f.e + 23 IN
    IF f.m = 0 \/ exp < -31 THEN Dur(0, 0)
    ELSE IF exp < 0 THEN Dur(0, NanosRounded(f.m, 14 - exp))
    ELSE IF exp < 23
         THEN Dur(f.m \div Pow2(23 - exp),
                  NanosRounded((f.m % Pow2(23 - exp)) * Pow2(exp), 14))
    ELSE Dur(f.m * Pow2(exp - 23), 0)

F32Five == IntToF32(5)

\* Duration::mul_f32: Duration::from_secs_f32(rhs * self.as_secs_f32()), rhs = 5.0
mul_f32_5(d) == from_secs_f32(F32Mul(F32Five, as_secs_f32(d)))

\* Duration::from_secs(20)
TwentySecs == Dur(20, 0)

\* lab.rs:109  max(Duration::from_secs(20), baseline_duration.mul_f32(5.0))
ScalesByFour(baseline_duration) ==
    DurMax(TwentySecs, from_secs_f32(F32Mul(IntToF32(4), as_secs_f32(baseline_duration))))
auto_timeout(baseline_duration) == DurMax(TwentySecs, mul_f32_5(baseline_duration))

\* 5 * d exactly, for comparison with what mul_f32 returns
FiveTimes(d) ==
    Dur(5 * d.secs + (d.nanos \div 200000000), (d.nanos % 200000000) * 5)

(***************************************************************************)
(* Data of the lab.                                                        *)
(***************************************************************************)
\* Phase::ALL
PhaseALL == <<"Check", "Build", "Test">>

\* Option<Duration>
None == <<>>
Some(x) == <<x>>

\* Scenario (lab.rs:29-42); the payload fields are 0 outside Mutant.
SourceTreeScenario ==
    [kind |-> "SourceTree", mutation |-> 0, i_mutation |-> 0, n_mutations |-> 0]
BaselineScenario ==
    [kind |-> "Baseline", mutation |-> 0, i_mutation |-> 0, n_mutations |-> 0]
MutantScenario(m, i, n) ==
    [kind |-> "Mutant", mutation |-> m, i_mutation |-> i, n_mutations |-> n]
NoScenario ==
    [kind |-> "None", mutation |-> 0, i_mutation |-> 0, n_mutations |-> 0]

\* impl Display for Scenario (lab.rs:44-52); a mutation displays as its own text
ScenarioName(sc) ==
    CASE sc.kind = "SourceTree" -> "source tree"
      [] sc.kind = "Baseline"   -> "baseline"
      [] OTHER                  -> "mutation " \o ToString(sc.mutation)

\* Scenario::is_mutant (lab.rs:55-57)
is_mutant(sc) == sc.kind = "Mutant"

\* The file a mutation rewrites: mutation 1 is in file 1, mutations 2 and 3 in
\* file 2, ...
FileOf(m) == (m \div 2) + 1

MutationIds == 1..MaxMutations
Files == {FileOf(m) : m \in MutationIds}

\* CargoResult::success
cargo_success(r) == r = "Success"

\* Outcome::new
NewOutcome(sc, log) == [scenario |-> sc, log |-> log, phase_results |-> <<>>]

\* Outcome::add_phase_result
add_phase_result(o, phase, duration, cargo_result) ==
    [o EXCEPT !.phase_results =
        Append(@, [phase |-> phase, duration |-> duration, cargo_result |-> cargo_result])]

\* Outcome::success: every recorded phase succeeded
outcome_success(o) ==
    \A k \in 1..Len(o.phase_results) : cargo_success(o.phase_results[k].cargo_result)

\* Outcome::test_duration: the duration of the Test phase, if one was recorded
test_duration(o) ==
    LET ks == {k \in 1..Len(o.phase_results) : o.phase_results[k].phase = "Test"} IN
    IF ks = {} THEN None ELSE Some(o.phase_results[CHOOSE k \in ks : TRUE].duration)

\* Options::has_test_timeout, Options::test_timeout
has_test_timeout(opts) == opts.test_timeout # None
test_timeout(opts) == IF opts.test_timeout = None THEN DurationMAX ELSE opts.test_timeout[1]

\* serde_json::to_writer_pretty(.., &lab_outcome): the outcomes, in order
SerializeLabOutcome(lo) == lo

(***************************************************************************)
(* Inputs of a run.                                                        *)
(***************************************************************************)
\* an explicit --timeout
ConfiguredTimeout == Dur(30, 0)

\* what phase_start.elapsed() can give for the baseline's Test phase
BaselineDurations == {Dur(1, 0), Dur(10, 0), Dur(10, 300000001)}

\* An elapsed time is read again only at lab.rs:108, the baseline's Test phase
\* when no test timeout is configured: one value stands for the others.
Elapsed(sc, phase, opts) ==
    IF sc.kind = "Baseline" /\ phase = "Test"
    THEN (IF has_test_timeout(opts) THEN {Dur(10, 0)} ELSE BaselineDurations)
    ELSE {Dur(2, 0)}

\* run_cargo: Ok(CargoResult), or Err by interruption or by an I/O failure.  A
\* timed-out result needs a timeout that can expire.
RunCargoReturns(timeout) ==
    {"Success", "Failure", "ErrInterrupted", "ErrIo"}
        \cup (IF timeout = DurationMAX THEN {} ELSE {"Timeout"})

\* names the output.rs tests give their logs
LogNames == {"one", "two", "three"}

RECURSIVE Perms(_)
Perms(S) ==
    IF S = {} THEN {<<>>}
    ELSE UNION {{<<x>> \o p : p \in Perms(S \ {x})} : x \in S}

RECURSIVE Iota(_)
Iota(n) == IF n = 0 THEN <<>> ELSE Append(Iota(n - 1), n)

(***************************************************************************)
(* State.                                                                  *)
(***************************************************************************)
VARIABLES
    pc,               \* where the run stands
    run,              \* number of this OutputDir::new call in the parent directory
    fs_out,           \* the directory mutants.out
    fs_old,           \* the directory mutants.out.old
    written,          \* history: every log create_log made, <<run, name>>
    prior_out,        \* history: mutants.out as OutputDir::new found it
    prior_old,        \* history: mutants.out.old as OutputDir::new found it
    failed_runs,      \* history: the OutputDir::new calls that returned Err
    made_runs,        \* history: the OutputDir::new calls that created mutants.out
    interrupted,      \* the process-wide flag check_interrupted polls, once seen set
    options_arg,      \* the Options the caller passed
    source_mutations, \* what source_tree.mutations() returns
    options,          \* the lab's own clone of the Options (lab.rs:69)
    lab_outcome,      \* LabOutcome: the outcomes added so far
    build_dir,        \* the scratch copy: per file, 0 (source text), the mutation applied, or Absent
    scratch_before,   \* history: build_dir's text when the last mutation was applied
    mutations,        \* the list the loop runs (lab.rs:120-123)
    i_mutation,       \* loop index (lab.rs:141)
    pipe,             \* locals of the run_cargo_phases call in progress
    invocations,      \* history: every run_cargo call and what it returned, in order
    result            \* what test_unmutated_then_all_mutants / OutputDir::new returned

vars == <<pc, run, fs_out, fs_old, written, prior_out, prior_old, failed_runs,
          made_runs, interrupted, options_arg, source_mutations, options,
          lab_outcome, build_dir, scratch_before, mutations, i_mutation, pipe,
          invocations, result>>

\* what OutputDir::new keeps of its calls
new_hist == <<prior_out, prior_old, failed_runs, made_runs>>
\* what a run is given
given    == <<run, options_arg, source_mutations>>
\* what only the lab changes
lab_vars == <<interrupted, options, lab_outcome, build_dir, scratch_before,
              mutations, i_mutation, pipe, invocations>>

(***************************************************************************)
(* Directories.  made_by is the OutputDir::new call that created the       *)
(* directory; logs are the files of its log subdirectory.                  *)
(***************************************************************************)
NoDir == [exists |-> FALSE, made_by |-> 0, log_dir |-> FALSE, logs |-> {},
          outcomes_json |-> None, mutants_json |-> None]

\* a file serde_json::to_writer_pretty wrote whole
JsonFile(v) == Some([complete |-> TRUE, value |-> v])

\* a file File::create made or truncated and the write did not get through to:
\* empty, or cut short
CutShort == Some([complete |-> FALSE, value |-> <<>>])

\* to_writer_pretty(BufWriter::new(File::create(path)?), &v)? (lab.rs:125-128,
\* 157-160): what it leaves of the file that was there and what the `?`s see.
\* File::create may fail and leave the file alone.  Once it has truncated the
\* file a failing write leaves it empty or cut short; the error reaches the `?`
\* when it comes while to_writer_pretty writes, and is discarded when it comes
\* as the BufWriter, dropped unflushed, writes out what it still holds.
WriteJson(was, v) ==
    {[file |-> JsonFile(v), returns |-> "Ok"],
     [file |-> was,         returns |-> "Err"],
     [file |-> CutShort,    returns |-> "Err"],
     [file |-> CutShort,    returns |-> "Ok"]}

\* fs::create_dir(&path) (output.rs:38): a new, empty directory
FreshDir(r) == [NoDir EXCEPT !.exists = TRUE, !.made_by = r]

\* a directory that holds nothing
IsEmptyDir(d) ==
    d.exists /\ ~d.log_dir /\ d.logs = {} /\ d.outcomes_json = None /\ d.mutants_json = None

\* what a failing fs::remove_dir_all(&rotated) (output.rs:33) can leave of the
\* directory d: it deletes the entries in the order read_dir gives them, the
\* log directory after its files, and d itself last
PartlyRemoved(d) ==
    LET left_of == {[d EXCEPT !.logs = left, !.log_dir = ld,
                              !.outcomes_json = oj, !.mutants_json = mj] :
                        left \in SUBSET d.logs,
                        ld \in {d.log_dir, FALSE},
                        oj \in {d.outcomes_json, None},
                        mj \in {d.mutants_json, None}}
    IN {x \in left_of : x.logs # {} => x.log_dir = d.log_dir}

\* a file of the scratch copy that is not there
Absent == -1

\* no scratch directory
NoScratch == [exists |-> FALSE, text |-> [f \in Files |-> 0]]

\* copy_tree has copied every file of the source (lab.rs:236-244)
CopiedScratch == [exists |-> TRUE, text |-> [f \in Files |-> 0]]

\* the TempDir of the scratch copy is dropped as the lab returns (lab.rs:163
\* and every return after lab.rs:97) or as a failed copy returns (lab.rs:259).
\* Its Drop removes the directory and ignores a failure of the removal: the
\* directory is gone, or is still there with any of its files removed.
DropTempDir(bd) ==
    IF ~bd.exists THEN {bd}
    ELSE {NoScratch} \cup
         {[exists |-> TRUE,
           text |-> [f \in Files |-> IF f \in kept THEN bd.text[f] ELSE Absent]] :
             kept \in SUBSET Files}

Running == [kind |-> "running", err |-> "none", value |-> <<>>]
Ok(v)   == [kind |-> "Ok", err |-> "none", value |-> v]
Err(e)  == [kind |-> "Err", err |-> e, value |-> <<>>]

NoPipe == [scenario |-> NoScenario, phases |-> <<>>, next |-> 0,
           outcome |-> NewOutcome(NoScenario, <<0, "">>), err |-> "none"]

(***************************************************************************)
(* OutputDir::new (output.rs:28-42), one action per filesystem call.       *)
(***************************************************************************)
\* fs::rename(&path, &rotated) (output.rs:35): mutants.out becomes mutants.out.old
RenameDeletes(out, old) == [out |-> NoDir, old |-> NoDir]
RenameLosesLogs(out, old) == [out |-> NoDir, old |-> [out EXCEPT !.logs = {}]]
RenameResult(out, old) == [out |-> NoDir, old |-> out]

\* rename(2) onto an existing directory succeeds only if that directory is empty
RenameCanSucceed(out, old) == out.exists /\ (old.exists => IsEmptyDir(old))

\* output.rs:29-30: path.exists()
NewStart ==
    /\ pc = "new"
    /\ prior_out' = fs_out
    /\ prior_old' = fs_old
    /\ pc' = IF fs_out.exists THEN "remove" ELSE "create_dir"
    /\ UNCHANGED <<given, fs_out, fs_old, written, failed_runs, made_runs, lab_vars,
                   result>>

\* a `?` of OutputDir::new returns the error
NewFails ==
    /\ pc' = "done"
    /\ result' = Err("io")
    /\ failed_runs' = failed_runs \cup {run}

\* output.rs:31-34: remove mutants.out.old if it is there.  A failing
\* remove_dir_all may already have deleted part of the tree.
NewRemove ==
    /\ pc = "remove"
    /\ IF fs_old.exists
       THEN \/ /\ fs_old' = NoDir
               /\ pc' = "rename"
               /\ UNCHANGED <<result, failed_runs>>
            \/ /\ fs_old' \in PartlyRemoved(fs_old)
               /\ NewFails
       ELSE /\ pc' = "rename"
            /\ UNCHANGED <<fs_old, result, failed_runs>>
    /\ UNCHANGED <<given, fs_out, written, prior_out, prior_old, made_runs, lab_vars>>

\* output.rs:35-36
NewRename ==
    /\ pc = "rename"
    /\ \/ /\ RenameCanSucceed(fs_out, fs_old)
          /\ fs_out' = RenameResult(fs_out, fs_old).out
          /\ fs_old' = RenameResult(fs_out, fs_old).old
          /\ pc' = "create_dir"
          /\ UNCHANGED <<result, failed_runs>>
       \/ /\ NewFails
          /\ UNCHANGED <<fs_out, fs_old>>
    /\ UNCHANGED <<given, written, prior_out, prior_old, made_runs, lab_vars>>

\* output.rs:38: create_dir fails on a path that exists
NewCreateDir ==
    /\ pc = "create_dir"
    /\ \/ /\ ~fs_out.exists
          /\ fs_out' = FreshDir(run)
          /\ made_runs' = made_runs \cup {run}
          /\ pc' = "create_log_dir"
          /\ UNCHANGED <<result, failed_runs>>
       \/ /\ NewFails
          /\ UNCHANGED <<fs_out, made_runs>>
    /\ UNCHANGED <<given, fs_old, written, prior_out, prior_old, lab_vars>>

\* output.rs:39-41
NewCreateLogDir ==
    /\ pc = "create_log_dir"
    /\ \/ /\ ~fs_out.log_dir
          /\ fs_out' = [fs_out EXCEPT !.log_dir = TRUE]
          /\ pc' = "created"
          /\ UNCHANGED <<result, failed_runs>>
       \/ /\ NewFails
          /\ UNCHANGED fs_out
    /\ UNCHANGED <<given, fs_old, written, prior_out, prior_old, made_runs, lab_vars>>

\* OutputDir::create_log (output.rs:53-55), as the tests of output.rs call it
CreateLog ==
    /\ pc = "created"
    /\ \E name \in LogNames :
          /\ fs_out' = [fs_out EXCEPT !.logs = @ \cup {<<run, name>>}]
          /\ written' = written \cup {<<run, name>>}
    /\ UNCHANGED <<pc, given, fs_old, new_hist, lab_vars, result>>

\* the next OutputDir::new in the same parent directory (output.rs:118, 128)
NewAgain ==
    /\ pc \in {"created", "done"}
    /\ run < MaxRuns
    /\ run' = run + 1
    /\ pc' = "new"
    /\ result' = Running
    /\ UNCHANGED <<options_arg, source_mutations, fs_out, fs_old, written, new_hist,
                   lab_vars>>

(***************************************************************************)
(* run_cargo_phases (lab.rs:172-223).                                      *)
(***************************************************************************)
\* lab.rs:204-207
TimesEveryPhase(phase, opts) == test_timeout(opts)
phase_timeout(phase, opts) == IF phase = "Test" THEN test_timeout(opts) ELSE DurationMAX

\* lab.rs:216: the loop stops after this phase
BreaksOnFailureOnly(phase, cargo_result, opts) == ~cargo_success(cargo_result)
BreaksOnCheckOnlyOnly(phase, cargo_result, opts) == phase = "Check" /\ opts.check_only
phase_breaks(phase, cargo_result, opts) ==
    (phase = "Check" /\ opts.check_only) \/ ~cargo_success(cargo_result)

\* lab.rs:276-280
source_tree_phases(opts) == IF opts.check_only THEN <<"Check">> ELSE <<"Check", "Build">>

\* lab.rs:180-188: the locals of run_cargo_phases as the loop starts
StartPipe(sc, phases) ==
    [scenario |-> sc, phases |-> phases, next |-> 1,
     outcome |-> NewOutcome(sc, <<run, ScenarioName(sc)>>), err |-> "none"]

\* run_cargo_phases returns Err(e): `?` carries it out of the lab (lab.rs:86,
\* 98), which drops the scratch copy if it has made it; the Err of a mutant's
\* pipeline first returns through with_mutation_applied.
PipeErr(e) ==
    /\ interrupted' = (interrupted \/ e = "interrupted")
    /\ IF is_mutant(pipe.scenario)
       THEN /\ pc' = "revert"
            /\ pipe' = [pipe EXCEPT !.err = e]
            /\ UNCHANGED <<result, build_dir>>
       ELSE /\ pc' = "done"
            /\ result' = Err(e)
            /\ build_dir' \in DropTempDir(build_dir)
            /\ UNCHANGED pipe

\* where Ok(outcome) returns to
ReturnPc(sc) ==
    CASE sc.kind = "SourceTree" -> "source_ret"
      [] sc.kind = "Baseline"   -> "baseline_ret"
      [] OTHER                  -> "revert"

\* lab.rs:180-188: open the scenario's log
RunCargoPhasesStart ==
    /\ pc = "phases_start"
    /\ \/ /\ fs_out' = [fs_out EXCEPT !.logs = @ \cup {pipe.outcome.log}]
          /\ written' = written \cup {pipe.outcome.log}
          /\ pc' = "phase"
          /\ UNCHANGED <<pipe, result, interrupted, build_dir>>
       \/ /\ PipeErr("io")
          /\ UNCHANGED <<fs_out, written>>
    /\ UNCHANGED <<given, fs_old, new_hist, options, lab_outcome, scratch_before,
                   mutations, i_mutation, invocations>>

\* lab.rs:189-219: one turn of the loop over the phases
RunCargoPhase ==
    /\ pc = "phase"
    /\ LET phase   == pipe.phases[pipe.next]
           timeout == phase_timeout(phase, options)
       IN \E r \in RunCargoReturns(timeout) :
             /\ invocations' = Append(invocations,
                    [scenario |-> pipe.scenario, phase |-> phase,
                     timeout |-> timeout, returned |-> r])
             /\ IF r = "ErrInterrupted" THEN PipeErr("interrupted")
                ELSE IF r = "ErrIo" THEN PipeErr("io")
                ELSE \E elapsed \in Elapsed(pipe.scenario, phase, options) :
                        /\ pipe' = [pipe EXCEPT
                              !.outcome = add_phase_result(@, phase, elapsed, r),
                              !.next = @ + 1]
                        /\ pc' = IF \/ phase_breaks(phase, r, options)
                                    \/ pipe.next = Len(pipe.phases)
                                 THEN "phases_end" ELSE "phase"
                        /\ UNCHANGED <<result, interrupted, build_dir>>
    /\ UNCHANGED <<given, fs_out, fs_old, written, new_hist, options, lab_outcome,
                   scratch_before, mutations, i_mutation>>

\* lab.rs:220-222
RunCargoPhasesEnd ==
    /\ pc = "phases_end"
    /\ \/ /\ pc' = ReturnPc(pipe.scenario)
          /\ UNCHANGED <<pipe, result, interrupted, build_dir>>
       \/ PipeErr("io")
    /\ UNCHANGED <<given, fs_out, fs_old, written, new_hist, options, lab_outcome,
                   scratch_before, mutations, i_mutation, invocations>>

(***************************************************************************)
(* Mutation::with_mutation_applied: apply, run the body, revert.           *)
(***************************************************************************)
\* the mutated text replaces the file's
apply_in_dir(text, m) == [text EXCEPT ![FileOf(m)] = m]

\* the original text is written back
revert_in_dir(text, m) == [text EXCEPT ![FileOf(m)] = 0]

\* the mutations whose text is in the scratch copy
Applied == {m \in MutationIds : build_dir.text[FileOf(m)] = m}

(***************************************************************************)
(* test_unmutated_then_all_mutants (lab.rs:65-163).                        *)
(***************************************************************************)
\* lab.rs:107-118
AlwaysDerives(opts, outcome) ==
    IF test_duration(outcome) # None
    THEN [opts EXCEPT !.test_timeout = Some(auto_timeout(test_duration(outcome)[1]))]
    ELSE opts
set_auto_timeout(opts, outcome) ==
    IF ~has_test_timeout(opts) /\ test_duration(outcome) # None
    THEN [opts EXCEPT !.test_timeout = Some(auto_timeout(test_duration(outcome)[1]))]
    ELSE opts

\* lab.rs:319-320: test_mutation runs its pipeline under with_mutation_applied
RunsUnapplied(text, m) == text
test_mutation_enter(text, m) == apply_in_dir(text, m)

\* lab.rs:320-329: ... which reverts when the pipeline has returned
LeavesApplied(text, m) == text
test_mutation_leave(text, m) == revert_in_dir(text, m)

\* lab.rs:84-86
CheckAndBuildSourceTree ==
    /\ pc = "created"
    /\ IF options.build_source
       THEN /\ pipe' = StartPipe(SourceTreeScenario, source_tree_phases(options))
            /\ pc' = "phases_start"
       ELSE /\ pc' = "copy"
            /\ UNCHANGED pipe
    /\ UNCHANGED <<given, fs_out, fs_old, written, new_hist, interrupted, options,
                   lab_outcome, build_dir, scratch_before, mutations, i_mutation,
                   invocations, result>>

\* lab.rs:87-95
SourceTreeDoneGoesOn ==
    /\ pc = "source_ret"
    /\ lab_outcome' = Append(lab_outcome, pipe.outcome)
    /\ pc' = "copy"
    /\ UNCHANGED <<given, fs_out, fs_old, written, new_hist, interrupted, options,
                   build_dir, scratch_before, mutations, i_mutation, pipe, invocations,
                   result>>
SourceTreeDone ==
    /\ pc = "source_ret"
    /\ lab_outcome' = Append(lab_outcome, pipe.outcome)
    /\ IF ~outcome_success(pipe.outcome)
       THEN /\ pc' = "done"
            /\ result' = Ok(lab_outcome')
       ELSE /\ pc' = "copy"
            /\ UNCHANGED result
    /\ UNCHANGED <<given, fs_out, fs_old, written, new_hist, interrupted, options,
                   build_dir, scratch_before, mutations, i_mutation, pipe, invocations>>

\* lab.rs:97-98, 225-263: copy_source_to_scratch, then test_baseline starts.  A
\* copy that fails has made the TempDir and copied some of the files; the
\* TempDir is dropped as the Err returns.
CopySourceToScratch ==
    /\ pc = "copy"
    /\ \/ /\ build_dir' = CopiedScratch
          /\ pipe' = StartPipe(BaselineScenario, PhaseALL)
          /\ pc' = "phases_start"
          /\ UNCHANGED <<result, interrupted>>
       \/ /\ \E e \in {"interrupted", "io"} :
                /\ result' = Err(e)
                /\ interrupted' = (interrupted \/ e = "interrupted")
          /\ build_dir' \in DropTempDir(CopiedScratch)
          /\ pc' = "done"
          /\ UNCHANGED pipe
    /\ UNCHANGED <<given, fs_out, fs_old, written, new_hist, options, lab_outcome,
                   scratch_before, mutations, i_mutation, invocations>>

\* lab.rs:99-118
BaselineDoneGoesOn ==
    /\ pc = "baseline_ret"
    /\ lab_outcome' = Append(lab_outcome, pipe.outcome)
    /\ options' = set_auto_timeout(options, pipe.outcome)
    /\ pc' = "mutations"
    /\ UNCHANGED <<given, fs_out, fs_old, written, new_hist, interrupted, build_dir,
                   scratch_before, mutations, i_mutation, pipe, invocations, result>>
BaselineDone ==
    /\ pc = "baseline_ret"
    /\ lab_outcome' = Append(lab_outcome, pipe.outcome)
    /\ IF ~outcome_success(pipe.outcome)
       THEN /\ pc' = "done"
            /\ result' = Ok(lab_outcome')
            /\ build_dir' \in DropTempDir(build_dir)
            /\ UNCHANGED options
       ELSE /\ options' = set_auto_timeout(options, pipe.outcome)
            /\ pc' = "mutations"
            /\ UNCHANGED <<result, build_dir>>
    /\ UNCHANGED <<given, fs_out, fs_old, written, new_hist, interrupted,
                   scratch_before, mutations, i_mutation, pipe, invocations>>

\* lab.rs:120-140: list the mutations, shuffle, write mutants.json.  An Err of
\* source_tree.mutations() leaves the files as File::create failing does.
ListMutations ==
    /\ pc = "mutations"
    /\ \E order \in (IF options.shuffle
                      THEN Perms({source_mutations[k] : k \in 1..Len(source_mutations)})
                      ELSE {source_mutations}) :
       \E w \in WriteJson(fs_out.mutants_json, order) :
          /\ fs_out' = [fs_out EXCEPT !.mutants_json = w.file]
          /\ IF w.returns = "Ok"
             THEN /\ mutations' = order
                  /\ i_mutation' = 0
                  /\ pc' = "loop"
                  /\ UNCHANGED <<result, build_dir>>
             ELSE /\ pc' = "done"
                  /\ result' = Err("io")
                  /\ build_dir' \in DropTempDir(build_dir)
                  /\ UNCHANGED <<mutations, i_mutation>>
    /\ UNCHANGED <<given, fs_old, written, new_hist, interrupted, options, lab_outcome,
                   scratch_before, pipe, invocations>>

\* lab.rs:141-152, 312-320: the next mutation is applied and its pipeline starts
TestMutationCountsFromOne ==
    /\ pc = "loop"
    /\ i_mutation < Len(mutations)
    /\ LET m == mutations[i_mutation + 1] IN
          /\ scratch_before' = build_dir.text
          /\ build_dir' = [build_dir EXCEPT !.text = test_mutation_enter(@, m)]
          /\ pipe' = StartPipe(MutantScenario(m, i_mutation + 1, Len(mutations)), PhaseALL)
    /\ pc' = "phases_start"
    /\ UNCHANGED <<given, fs_out, fs_old, written, new_hist, interrupted, options,
                   lab_outcome, mutations, i_mutation, invocations, result>>
TestMutation ==
    /\ pc = "loop"
    /\ i_mutation < Len(mutations)
    /\ LET m == mutations[i_mutation + 1] IN
          /\ scratch_before' = build_dir.text
          /\ build_dir' = [build_dir EXCEPT !.text = test_mutation_enter(@, m)]
          /\ pipe' = StartPipe(MutantScenario(m, i_mutation, Len(mutations)), PhaseALL)
    /\ pc' = "phases_start"
    /\ UNCHANGED <<given, fs_out, fs_old, written, new_hist, interrupted, options,
                   lab_outcome, mutations, i_mutation, invocations, result>>

\* lab.rs:320-329: the pipeline has returned, the mutation is reverted, and
\* test_mutation returns what the pipeline returned
TestMutationReturn ==
    /\ pc = "revert"
    /\ build_dir' = [build_dir EXCEPT !.text = test_mutation_leave(@, pipe.scenario.mutation)]
    /\ pc' = IF pipe.err # "none" THEN "mutant_err" ELSE "mutant_ret"
    /\ UNCHANGED <<given, fs_out, fs_old, written, new_hist, interrupted, options,
                   lab_outcome, scratch_before, mutations, i_mutation, pipe,
                   invocations, result>>

\* lab.rs:152: the `?` on test_mutation's Err leaves the lab
TestMutationErr ==
    /\ pc = "mutant_err"
    /\ pc' = "done"
    /\ result' = Err(pipe.err)
    /\ build_dir' \in DropTempDir(build_dir)
    /\ UNCHANGED <<given, fs_out, fs_old, written, new_hist, interrupted, options,
                   lab_outcome, scratch_before, mutations, i_mutation, pipe,
                   invocations>>

\* lab.rs:157-161: rewrite outcomes.json with the LabOutcome lo, then take the
\* next turn of the loop
RewriteOutcomesJson(lo) ==
    \E w \in WriteJson(fs_out.outcomes_json, SerializeLabOutcome(lo)) :
        /\ fs_out' = [fs_out EXCEPT !.outcomes_json = w.file]
        /\ IF w.returns = "Ok"
           THEN /\ i_mutation' = i_mutation + 1
                /\ pc' = "loop"
                /\ UNCHANGED <<result, build_dir>>
           ELSE /\ pc' = "done"
                /\ result' = Err("io")
                /\ build_dir' \in DropTempDir(build_dir)
                /\ UNCHANGED i_mutation

\* lab.rs:153-160: add the outcome, rewrite outcomes.json
MutantDoneKeepsLatest ==
    /\ pc = "mutant_ret"
    /\ lab_outcome' = <<pipe.outcome>>
    /\ RewriteOutcomesJson(lab_outcome')
    /\ UNCHANGED <<given, fs_old, written, new_hist, interrupted, options,
                   scratch_before, mutations, pipe, invocations>>
MutantDoneFailsTheRun ==
    /\ pc = "mutant_ret"
    /\ lab_outcome' = Append(lab_outcome, pipe.outcome)
    /\ IF outcome_success(pipe.outcome)
       THEN RewriteOutcomesJson(lab_outcome')
       ELSE /\ pc' = "done"
            /\ result' = Err("mutant failed")
            /\ build_dir' \in DropTempDir(build_dir)
            /\ UNCHANGED <<fs_out, i_mutation>>
    /\ UNCHANGED <<given, fs_old, written, new_hist, interrupted, options,
                   scratch_before, mutations, pipe, invocations>>
MutantDone ==
    /\ pc = "mutant_ret"
    /\ lab_outcome' = Append(lab_outcome, pipe.outcome)
    /\ RewriteOutcomesJson(lab_outcome')
    /\ UNCHANGED <<given, fs_old, written, new_hist, interrupted, options,
                   scratch_before, mutations, pipe, invocations>>

\* lab.rs:162-163
ReturnLabOutcome ==
    /\ pc = "loop"
    /\ i_mutation = Len(mutations)
    /\ pc' = "done"
    /\ result' = Ok(lab_outcome)
    /\ build_dir' \in DropTempDir(build_dir)
    /\ UNCHANGED <<given, fs_out, fs_old, written, new_hist, interrupted, options,
                   lab_outcome, scratch_before, mutations, i_mutation, pipe,
                   invocations>>

(***************************************************************************)
(* Specifications.                                                         *)
(***************************************************************************)
\* what a run that found no mutation leaves in its mutants.out
LeftByRun(r) ==
    [FreshDir(r) EXCEPT !.log_dir = TRUE, !.logs = {<<r, "baseline">>},
                        !.mutants_json = JsonFile(<<>>)]

\* the parent directory as the lab finds it: never used, or used by two runs
\* of this source tree, which found no mutation in it
ParentStates ==
    {[run |-> 1, out |-> NoDir, old |-> NoDir, written |-> {}, made |-> {}],
     [run |-> 3, out |-> LeftByRun(2), old |-> LeftByRun(1),
      written |-> {<<1, "baseline">>, <<2, "baseline">>}, made |-> {1, 2}]}

LabIdle ==
    /\ lab_outcome = <<>>
    /\ build_dir = NoScratch
    /\ scratch_before = [f \in Files |-> 0]
    /\ mutations = <<>>
    /\ i_mutation = 0
    /\ pipe = NoPipe
    /\ invocations = <<>>
    /\ interrupted = FALSE
    /\ result = Running

Init ==
    /\ pc = "new"
    /\ \E p \in ParentStates :
          /\ run = p.run
          /\ fs_out = p.out
          /\ fs_old = p.old
          /\ written = p.written
          /\ made_runs = p.made
    /\ prior_out = NoDir
    /\ prior_old = NoDir
    /\ failed_runs = {}
    /\ options_arg \in [build_source : BOOLEAN, check_only : BOOLEAN,
                        shuffle : BOOLEAN,
                        test_timeout : {None, Some(ConfiguredTimeout)}]
    /\ options = options_arg
    /\ source_mutations \in {Iota(n) : n \in 0..MaxMutations}
    /\ fs_out.exists => source_mutations = <<>>
    /\ LabIdle

Next ==
    \/ NewStart
    \/ NewRemove
    \/ NewRename
    \/ NewCreateDir
    \/ NewCreateLogDir
    \/ CheckAndBuildSourceTree
    \/ RunCargoPhasesStart
    \/ RunCargoPhase
    \/ RunCargoPhasesEnd
    \/ SourceTreeDone
    \/ CopySourceToScratch
    \/ BaselineDone
    \/ ListMutations
    \/ TestMutation
    \/ TestMutationReturn
    \/ TestMutationErr
    \/ MutantDone
    \/ ReturnLabOutcome

Spec == Init /\ [][Next]_vars

\* the tests of output.rs: OutputDir::new and create_log, again and again
InitOut ==
    /\ pc = "new"
    /\ run = 1
    /\ fs_out = NoDir
    /\ fs_old = NoDir
    /\ written = {}
    /\ prior_out = NoDir
    /\ prior_old = NoDir
    /\ failed_runs = {}
    /\ made_runs = {}
    /\ options_arg = [build_source |-> FALSE, check_only |-> FALSE, shuffle |-> FALSE,
                      test_timeout |-> None]
    /\ options = options_arg
    /\ source_mutations = <<>>
    /\ LabIdle

NextOut ==
    \/ NewStart
    \/ NewRemove
    \/ NewRename
    \/ NewCreateDir
    \/ NewCreateLogDir
    \/ CreateLog
    \/ NewAgain

SpecOut == InitOut /\ [][NextOut]_vars

(***************************************************************************)
(* The claims.                                                             *)
(***************************************************************************)
\* 1 if the source-tree scenario is enabled, else 0
NSource == IF options_arg.build_source THEN 1 ELSE 0

\* the run returned Ok with a source tree (if run) and a baseline that passed
CompletedRun ==
    /\ pc = "done"
    /\ result.kind = "Ok"
    /\ Len(lab_outcome) >= NSource + 1
    /\ \A k \in 1..(NSource + 1) : outcome_success(lab_outcome[k])

\* C1: when the run completes with a passing source tree and baseline, the
\* final outcomes.json holds exactly (1 if build_source) + 1 + n outcomes, for
\* every length n of the mutation list, n = 0 included.
C1_FinalOutcomesJsonCount ==
    CompletedRun =>
        /\ fs_out.outcomes_json # None
        /\ fs_out.outcomes_json[1].complete
        /\ Len(fs_out.outcomes_json[1].value) = NSource + 1 + Len(source_mutations)

\* a scenario's outcome has been added and the lab has moved on or returned Ok
ScenarioRecorded ==
    /\ lab_outcome # <<>>
    /\ pc \in {"copy", "mutations", "loop", "done"}
    /\ result.kind # "Err"

\* C2: after every scenario completes (source tree, baseline, each mutant,
\* the scenario that aborts the run included), outcomes.json equals the
\* serialization of the LabOutcome accumulated so far.
C2_OutcomesJsonAfterEveryScenario ==
    ScenarioRecorded => fs_out.outcomes_json = JsonFile(SerializeLabOutcome(lab_outcome))

\* C3: when an interruption is observed, the lab stops and returns the
\* LabOutcome accumulated so far.
C3_InterruptReturnsLabOutcome ==
    (pc = "done" /\ interrupted) => result = Ok(lab_outcome)

\* the lab is in its loop and no test_mutation call is in progress
NoMutationInProgress == pc \in {"mutant_ret", "mutant_err", "loop"}

\* C4: when test_mutation has returned, by Ok or by Err, the scratch copy is
\* what it was before the mutation was applied.
C4_ScratchRestored ==
    NoMutationInProgress => (build_dir.exists /\ build_dir.text = scratch_before)

\* test_mutation returned the Err of its pipeline, the mutation reverted
C4_Witness ==
    /\ pc = "mutant_err"
    /\ build_dir.exists
    /\ is_mutant(pipe.scenario)
    /\ pipe.err # "none"
    /\ scratch_before[FileOf(pipe.scenario.mutation)] = 0

InPipeline == pc \in {"phases_start", "phase", "phases_end"}

\* C5: at most one mutation is applied to the scratch copy in every state;
\* none while the baseline runs; exactly mutation i while mutant i's pipeline
\* runs.
C5_AtMostOneMutationApplied ==
    /\ Cardinality(Applied) <= 1
    /\ (InPipeline /\ pipe.scenario.kind = "Baseline") => Applied = {}
    /\ (InPipeline /\ is_mutant(pipe.scenario)) => Applied = {pipe.scenario.mutation}

\* the pipeline of the second mutant of the list is running
C5_Witness ==
    /\ pc = "phase"
    /\ is_mutant(pipe.scenario)
    /\ pipe.scenario.i_mutation = 1
    /\ Applied = {pipe.scenario.mutation}

SetMax(S) == CHOOSE x \in S : \A y \in S : y <= x

\* the logs the OutputDir of call r created
LogsOf(r) == {l \in written : l[1] = r}

\* the OutputDir::new calls that returned Ok, this one included
OkRuns == {r \in 1..run : r \notin failed_runs}

\* C6: after k >= 2 successful OutputDir::new calls in one parent directory,
\* each followed by creating logs, mutants.out and mutants.out.old both exist,
\* mutants.out holds the logs of run k only, mutants.out.old those of run k-1
\* only, and no older log is left anywhere.
C6_RotationKeepsTwoRuns ==
    (pc = "created" /\ Cardinality(OkRuns) >= 2) =>
        /\ fs_out.exists
        /\ fs_old.exists
        /\ fs_out.logs = LogsOf(run)
        /\ fs_old.logs \subseteq LogsOf(SetMax(OkRuns \ {run}))
        /\ (run - 1) \notin failed_runs => fs_old.logs = LogsOf(run - 1)

\* the end of output.rs's test rotate: three runs wrote the logs one, two and
\* three, and the log of the first is gone
C6_Witness ==
    /\ pc = "created"
    /\ run = 3
    /\ failed_runs = {}
    /\ written = {<<1, "one">>, <<2, "two">>, <<3, "three">>}
    /\ LogsOf(1) # {}
    /\ LogsOf(2) # {}
    /\ fs_out.logs = LogsOf(3)
    /\ fs_out.logs # {}
    /\ fs_old.logs = LogsOf(2)

\* OutputDir::new has returned Ok and its directory has not been written to yet
JustReturned == pc = "created" /\ LogsOf(run) = {}

\* the calls before this one that created a results directory
EarlierMade == made_runs \ {run}

\* C7: whatever the parent directory held, when OutputDir::new returns Ok
\* mutants.out holds an empty log subdirectory and nothing else, and
\* mutants.out.old, if there, is the results directory of the immediately
\* preceding run, with nothing older in it.
C7_NewLeavesFreshAndPreceding ==
    JustReturned =>
        /\ fs_out = [FreshDir(run) EXCEPT !.log_dir = TRUE]
        /\ fs_old.exists =>
              /\ EarlierMade # {}
              /\ fs_old.made_by = SetMax(EarlierMade)
              /\ \A l \in fs_old.logs : l[1] = fs_old.made_by
        /\ prior_out.exists => fs_old = prior_out
        /\ ~prior_out.exists => fs_old = prior_old

\* both directories were there: the older one was deleted, the newer rotated
C7_Witness ==
    /\ JustReturned
    /\ prior_out.exists
    /\ prior_out.logs # {}
    /\ prior_old.exists
    /\ prior_old.logs # {}
    /\ fs_old = prior_out

\* the run_cargo calls that ran a mutant's Test phase
MutantTestInvocations ==
    {k \in DOMAIN invocations :
        is_mutant(invocations[k].scenario) /\ invocations[k].phase = "Test"}

\* the Test duration the baseline recorded
BaselineTestDuration == test_duration(lab_outcome[NSource + 1])[1]

\* a - b in nanoseconds, for durations less than two seconds apart
NanosBetween(a, b) == (a.secs - b.secs) * NANOS_PER_SEC + (a.nanos - b.nanos)

\* t is within one millionth of x
WithinAMillionth(t, x) ==
    /\ t.secs - x.secs \in {-1, 0, 1}
    /\ NanosBetween(t, x) <= x.secs * 1000
    /\ NanosBetween(x, t) <= x.secs * 1000

\* C8 as stated: with no test timeout configured and a baseline Test phase of
\* duration d, every mutant's Test phase runs with exactly max(20s, 5 * d).
C8_TimeoutIsExactlyFiveTimes ==
    ~has_test_timeout(options_arg) =>
        \A k \in MutantTestInvocations :
            invocations[k].timeout = DurMax(TwentySecs, FiveTimes(BaselineTestDuration))

\* C8 as amended: ... every mutant's Test phase runs with a timeout that is at
\* least 20s and within one millionth of max(20s, 5 * d), the product being
\* taken in single precision; it is exactly 20s for d = 1s and 50s for d = 10s.
C8_TimeoutIsFiveTimesInF32 ==
    ~has_test_timeout(options_arg) =>
        \A k \in MutantTestInvocations :
            LET t == invocations[k].timeout
                d == BaselineTestDuration
            IN /\ DurLeq(TwentySecs, t)
               /\ WithinAMillionth(t, DurMax(TwentySecs, FiveTimes(d)))
               /\ d = Dur(1, 0) => t = Dur(20, 0)
               /\ d = Dur(10, 0) => t = Dur(50, 0)

\* a mutant's Test phase ran with a derived timeout that is not 5 * d
C8_Witness ==
    /\ ~has_test_timeout(options_arg)
    /\ \E k \in MutantTestInvocations :
          /\ invocations[k].timeout # DurMax(TwentySecs, FiveTimes(BaselineTestDuration))
          /\ invocations[k].timeout = Dur(51, 500000000)

\* every Outcome of the run, the one being built included
Outcomes == {lab_outcome[k] : k \in DOMAIN lab_outcome} \cup {pipe.outcome}

\* C9: once a phase of a scenario fails or times out, run_cargo is not called
\* again for that scenario; if Check fails, the Outcome records one phase
\* result and Build and Test are never invoked.
C9_NoPhaseAfterFailure ==
    /\ \A j, k \in DOMAIN invocations :
          (j < k /\ invocations[j].scenario = invocations[k].scenario)
              => invocations[j].returned = "Success"
    /\ \A o \in Outcomes :
          (/\ o.phase_results # <<>>
           /\ o.phase_results[1].phase = "Check"
           /\ ~cargo_success(o.phase_results[1].cargo_result))
              => /\ Len(o.phase_results) = 1
                 /\ \A k \in DOMAIN invocations :
                       invocations[k].scenario = o.scenario
                           => invocations[k].phase = "Check"

\* a mutant whose Check failed went into the LabOutcome with one phase result,
\* and the mutant after it has started
C9_Witness ==
    /\ ~options_arg.check_only
    /\ \E k \in DOMAIN lab_outcome :
          /\ is_mutant(lab_outcome[k].scenario)
          /\ Len(lab_outcome[k].phase_results) = 1
          /\ lab_outcome[k].phase_results[1].cargo_result = "Failure"
          /\ k < Len(lab_outcome)

\* C10: with check-only enabled every scenario invokes the Check phase and no
\* other, and its success is the result of that Check.
C10_CheckOnlyRunsCheckAlone ==
    options_arg.check_only =>
        /\ \A k \in DOMAIN invocations : invocations[k].phase = "Check"
        /\ \A j, k \in DOMAIN invocations :
              invocations[j].scenario = invocations[k].scenario => j = k
        /\ \A i \in DOMAIN lab_outcome :
              /\ Len(lab_outcome[i].phase_results) = 1
              /\ lab_outcome[i].phase_results[1].phase = "Check"
              /\ \A k \in DOMAIN invocations :
                    invocations[k].scenario = lab_outcome[i].scenario =>
                        (outcome_success(lab_outcome[i])
                            <=> invocations[k].returned = "Success")

\* a check-only run with source tree, baseline and a mutant all recorded,
\* the mutant's Check having failed
C10_Witness ==
    /\ options_arg.check_only
    /\ options_arg.build_source
    /\ Len(lab_outcome) = 3
    /\ is_mutant(lab_outcome[3].scenario)
    /\ ~outcome_success(lab_outcome[3])
    /\ Len(invocations) = 3

\* the run_cargo calls made for a mutant
MutantInvocations == {k \in DOMAIN invocations : is_mutant(invocations[k].scenario)}

\* build_source is enabled, the source tree passed and the baseline did not
BaselineFailed ==
    /\ options_arg.build_source
    /\ Len(lab_outcome) >= 2
    /\ outcome_success(lab_outcome[1])
    /\ lab_outcome[2].scenario = BaselineScenario
    /\ ~outcome_success(lab_outcome[2])

\* C11: when the source tree builds and the baseline fails in any phase, the
\* run returns right after the baseline a LabOutcome of exactly two entries
\* (source tree, baseline); no mutation is applied or run and mutants.json is
\* not written.
C11_BaselineFailureAborts ==
    BaselineFailed =>
        /\ pc = "done"
        /\ result = Ok(lab_outcome)
        /\ Len(lab_outcome) = 2
        /\ lab_outcome[1].scenario = SourceTreeScenario
        /\ MutantInvocations = {}
        /\ invocations[Len(invocations)].scenario = BaselineScenario
        /\ Applied = {}
        /\ mutations = <<>>
        /\ fs_out.mutants_json = None

\* the baseline's Test phase timed out after the source tree was built
C11_Witness ==
    /\ BaselineFailed
    /\ pc = "done"
    /\ Len(lab_outcome[1].phase_results) = 2
    /\ Len(lab_outcome[2].phase_results) = 3
    /\ lab_outcome[2].phase_results[3].cargo_result = "Timeout"

\* build_source is enabled and the source tree's Check or Build failed
SourceTreeFailed ==
    /\ options_arg.build_source
    /\ lab_outcome # <<>>
    /\ lab_outcome[1].scenario = SourceTreeScenario
    /\ ~outcome_success(lab_outcome[1])

\* C12: when build_source is enabled and the source-tree scenario fails, the
\* run returns at once a LabOutcome holding the source-tree outcome alone; the
\* scratch copy is not made and neither the baseline nor a mutant is run.
C12_SourceTreeFailureAborts ==
    SourceTreeFailed =>
        /\ pc = "done"
        /\ result = Ok(lab_outcome)
        /\ Len(lab_outcome) = 1
        /\ ~build_dir.exists
        /\ \A k \in DOMAIN invocations : invocations[k].scenario = SourceTreeScenario
        /\ pipe.scenario = SourceTreeScenario
        /\ fs_out.mutants_json = None

\* the source tree passed Check and failed Build
C12_Witness ==
    /\ SourceTreeFailed
    /\ pc = "done"
    /\ Len(invocations) = 2
    /\ invocations[2].phase = "Build"
    /\ invocations[2].returned = "Failure"

\* seq lists every element of the list src once
IsPermutationOf(seq, src) ==
    /\ Len(seq) = Len(src)
    /\ \A x \in {src[k] : k \in DOMAIN src} : Cardinality({k \in DOMAIN seq : seq[k] = x}) = 1

\* the run has got to its mutants
ReachedMutants ==
    \/ pc \in {"loop", "revert", "mutant_ret"}
    \/ InPipeline /\ is_mutant(pipe.scenario)
    \/ MutantInvocations # {}
    \/ CompletedRun

\* mutants.json holds the list the loop runs, every mutation of the source in it
MutantsJsonIsThePlan ==
    /\ fs_out.mutants_json = JsonFile(mutations)
    /\ IsPermutationOf(mutations, source_mutations)
    /\ ~options_arg.shuffle => mutations = source_mutations

\* the mutants run so far are those of mutants.json, in its order
RunInPlannedOrder ==
    /\ \A k \in DOMAIN lab_outcome :
          is_mutant(lab_outcome[k].scenario) =>
              lab_outcome[k].scenario.mutation = fs_out.mutants_json[1].value[k - NSource - 1]
    /\ \A k \in MutantInvocations :
          invocations[k].scenario.mutation =
              fs_out.mutants_json[1].value[invocations[k].scenario.i_mutation + 1]

\* C13: a run that gets to its mutants writes mutants.json exactly once,
\* before a mutation is applied or run, with the full mutation list in the
\* order in which the mutations are then executed; a run that stops before
\* then does not write it, and no run writes it twice.
C13_MutantsJsonWrittenOnceBeforeMutants ==
    /\ [](ReachedMutants => (MutantsJsonIsThePlan /\ RunInPlannedOrder))
    /\ []((pc \notin {"new", "remove", "rename"} /\ fs_out.mutants_json = None)
              => (Applied = {} /\ MutantInvocations = {}))
    /\ []((pc = "done" /\ result.kind = "Ok" /\ ~CompletedRun)
              => fs_out.mutants_json = None)
    /\ [][(fs_out'.mutants_json # fs_out.mutants_json /\ fs_out'.mutants_json # None)
              => /\ pc = "mutations"
                 /\ fs_out.mutants_json = None
                 /\ Applied = {}
                 /\ MutantInvocations = {}]_vars

\* what run_cargo returns for a check, build or test that failed or timed out
Failures == {"Failure", "Timeout"}

\* the last phase result of an Outcome
LastPhaseResult(o) == o.phase_results[Len(o.phase_results)]

\* the run_cargo call k returned a failure and the scenario's Outcome records it
FailureRecorded(k) ==
    \E o \in Outcomes :
        /\ o.scenario = invocations[k].scenario
        /\ o.phase_results # <<>>
        /\ LastPhaseResult(o).phase = invocations[k].phase
        /\ LastPhaseResult(o).cargo_result = invocations[k].returned

\* the Check phases run for mutation m
ChecksOf(m) ==
    {k \in MutantInvocations :
        invocations[k].scenario.mutation = m /\ invocations[k].phase = "Check"}

\* C14: a check, build or test failure or a test timeout is not returned as an
\* error: the step that meets it leaves the lab running and the scenario's
\* Outcome records it; a failing or timed-out mutant stops its own pipeline
\* only, so that a run that returns Ok after its baseline passed has run every
\* mutation of the list exactly once.
C14_FailuresAreOutcomesNotErrors ==
    /\ [](result.kind = "Err" => result.err \in {"io", "interrupted"})
    /\ [](\A k \in DOMAIN invocations :
              invocations[k].returned \in Failures => FailureRecorded(k))
    /\ [][(/\ Len(invocations') = Len(invocations) + 1
           /\ invocations'[Len(invocations')].returned \in Failures)
              => (result' = Running /\ pc' = "phases_end")]_vars
    /\ [](pc = "loop" => Len(lab_outcome) = NSource + 1 + i_mutation)
    /\ [](CompletedRun =>
              /\ Len(lab_outcome) = NSource + 1 + Len(mutations)
              /\ \A j \in DOMAIN mutations :
                    /\ lab_outcome[NSource + 1 + j].scenario.mutation = mutations[j]
                    /\ Cardinality(ChecksOf(mutations[j])) = 1)

\* the first mutant failed to build, the second then ran and timed out, and
\* the run returned Ok
C14_Witness ==
    /\ CompletedRun
    /\ Len(mutations) = 2
    /\ LastPhaseResult(lab_outcome[NSource + 2]).phase = "Build"
    /\ LastPhaseResult(lab_outcome[NSource + 2]).cargo_result = "Failure"
    /\ LastPhaseResult(lab_outcome[NSource + 3]).phase = "Test"
    /\ LastPhaseResult(lab_outcome[NSource + 3]).cargo_result = "Timeout"

\* the j-th scenario of a run: source tree (if enabled), baseline, then the
\* mutants in the order of the list, numbered from 0
ExpectedScenario(j) ==
    IF j <= NSource THEN SourceTreeScenario
    ELSE IF j = NSource + 1 THEN BaselineScenario
    ELSE MutantScenario(mutations[j - NSource - 1], j - NSource - 2, Len(mutations))

\* where a scenario stands in the run, by what it carries
ScenarioIndex(sc) ==
    CASE sc.kind = "SourceTree" -> 1
      [] sc.kind = "Baseline"   -> NSource + 1
      [] OTHER                  -> NSource + 2 + sc.i_mutation

\* C15: scenarios run one at a time, source tree (if enabled), baseline, then
\* the mutants in the order of the list; the k-th mutant scenario carries
\* i_mutation = k counted from 0 and n_mutations = the length of the list; the
\* LabOutcome's entries are in the same order.
C15_ScenariosInOrder ==
    /\ \A j \in DOMAIN lab_outcome : lab_outcome[j].scenario = ExpectedScenario(j)
    /\ \A k \in DOMAIN invocations :
          invocations[k].scenario = ExpectedScenario(ScenarioIndex(invocations[k].scenario))
    /\ \A k \in 2..Len(invocations) :
          ScenarioIndex(invocations[k - 1].scenario) <= ScenarioIndex(invocations[k].scenario)
    /\ InPipeline =>
          /\ pipe.scenario = ExpectedScenario(Len(lab_outcome) + 1)
          /\ \A k \in DOMAIN invocations :
                ScenarioIndex(invocations[k].scenario) <= Len(lab_outcome) + 1

\* a shuffled run with every scenario recorded: the second mutant is mutation 1
\* and carries i_mutation = 1 of n_mutations = 2
C15_Witness ==
    /\ options_arg.build_source
    /\ mutations = <<2, 1>>
    /\ Len(lab_outcome) = 4
    /\ lab_outcome[3].scenario = MutantScenario(2, 0, 2)
    /\ lab_outcome[4].scenario = MutantScenario(1, 1, 2)

\* the Options the scenario's run_cargo_phases was given: the mutants get the
\* lab's clone as it is after the baseline, the others the caller's
OptionsOf(sc) == IF is_mutant(sc) THEN options ELSE options_arg

\* C16: in every scenario Check and Build are run with no timeout
\* (Duration::MAX) and Test with the test timeout of the Options, so that a
\* timed-out result is recorded for a Test phase only.
C16_OnlyTestHasTimeout ==
    /\ \A k \in DOMAIN invocations :
          /\ invocations[k].phase # "Test" => invocations[k].timeout = DurationMAX
          /\ invocations[k].phase = "Test" =>
                invocations[k].timeout = test_timeout(OptionsOf(invocations[k].scenario))
          /\ invocations[k].returned = "Timeout" => invocations[k].phase = "Test"
    /\ \A o \in Outcomes : \A j \in DOMAIN o.phase_results :
          o.phase_results[j].cargo_result = "Timeout" => o.phase_results[j].phase = "Test"

\* under a configured timeout a mutant's Check and Build ran with none and its
\* Test timed out
C16_Witness ==
    /\ has_test_timeout(options_arg)
    /\ Len(invocations) >= 3
    /\ LET n == Len(invocations) IN
          /\ is_mutant(invocations[n - 2].scenario)
          /\ invocations[n - 2].phase = "Check"
          /\ invocations[n - 2].timeout = DurationMAX
          /\ invocations[n - 1].timeout = DurationMAX
          /\ invocations[n].phase = "Test"
          /\ invocations[n].timeout = ConfiguredTimeout
          /\ invocations[n].returned = "Timeout"

\* the phase list run_cargo_phases is called with for a scenario
RequestedPhases(sc) ==
    IF sc.kind = "SourceTree" THEN source_tree_phases(options_arg) ELSE PhaseALL

\* the Outcomes run_cargo_phases has returned
ReturnedOutcomes ==
    {lab_outcome[k] : k \in DOMAIN lab_outcome}
        \cup (IF pc \in {"source_ret", "baseline_ret", "mutant_ret"}
              THEN {pipe.outcome} ELSE {})

\* C17: every Outcome run_cargo_phases returns records a prefix of the
\* requested phase list, in order, each phase once and never run again; every
\* recorded phase but the last succeeded, and the Outcome is a success iff its
\* last recorded phase succeeded.
C17_OutcomeIsPrefixOfPhases ==
    /\ \A o \in Outcomes :
          /\ Len(o.phase_results) <= Len(RequestedPhases(o.scenario))
          /\ \A j \in DOMAIN o.phase_results :
                /\ o.phase_results[j].phase = RequestedPhases(o.scenario)[j]
                /\ j < Len(o.phase_results)
                      => cargo_success(o.phase_results[j].cargo_result)
    /\ \A o \in ReturnedOutcomes :
          /\ o.phase_results # <<>>
          /\ outcome_success(o) <=> cargo_success(LastPhaseResult(o).cargo_result)
    /\ \A j \in DOMAIN invocations : \A k \in (j + 1)..Len(invocations) :
          \/ invocations[j].scenario # invocations[k].scenario
          \/ invocations[j].phase # invocations[k].phase

\* a baseline of three successful phases, then a mutant that passed Check and
\* failed Build: two phase results, the Outcome not a success
C17_Witness ==
    /\ pc = "mutant_ret"
    /\ Len(lab_outcome[Len(lab_outcome)].phase_results) = 3
    /\ outcome_success(lab_outcome[Len(lab_outcome)])
    /\ Len(pipe.outcome.phase_results) = 2
    /\ pipe.outcome.phase_results[1].cargo_result = "Success"
    /\ pipe.outcome.phase_results[2].phase = "Build"
    /\ pipe.outcome.phase_results[2].cargo_result = "Failure"
    /\ ~outcome_success(pipe.outcome)

\* C18: every step of a run leaves the LabOutcome as it is or appends one
\* Outcome at its end; an Outcome once appended is not removed, moved or
\* changed.
C18_LabOutcomeOnlyGrows ==
    [][\/ lab_outcome' = lab_outcome
       \/ /\ Len(lab_outcome') = Len(lab_outcome) + 1
          /\ SubSeq(lab_outcome', 1, Len(lab_outcome)) = lab_outcome
          /\ lab_outcome'[Len(lab_outcome')] = pipe.outcome]_vars

\* the second mutant's outcome has just been appended after three others
C18_Witness ==
    /\ pc = "loop"
    /\ i_mutation = 2
    /\ Len(lab_outcome) = 4
    /\ lab_outcome[4] = pipe.outcome
    /\ lab_outcome[1].scenario = SourceTreeScenario

\* d is the results directory of call r, with every log that call wrote
HoldsResultsOf(d, r) == d.exists /\ d.made_by = r /\ d.logs = LogsOf(r)

\* C19: in every state of OutputDir::new, between any two of its filesystem
\* calls and after it has failed at any of them, the results directory of the
\* immediately preceding run is still there, whole, as mutants.out or as
\* mutants.out.old.
C19_RotationNeverLosesPrecedingRun ==
    EarlierMade # {} =>
        \/ HoldsResultsOf(fs_out, SetMax(EarlierMade))
        \/ HoldsResultsOf(fs_old, SetMax(EarlierMade))

\* OutputDir::new failed after the rename, creating the new mutants.out: the
\* preceding run's logs are in mutants.out.old
C19_Witness ==
    /\ pc = "done"
    /\ result.kind = "Err"
    /\ prior_out.exists
    /\ prior_out.logs # {}
    /\ prior_old.exists
    /\ ~fs_out.exists
    /\ HoldsResultsOf(fs_old, SetMax(EarlierMade))

\* the run_cargo calls that ran a Test phase
TestInvocations == {k \in DOMAIN invocations : invocations[k].phase = "Test"}

\* the baseline is in the LabOutcome with a Test phase recorded
BaselineRecordedTest ==
    /\ Len(lab_outcome) >= NSource + 1
    /\ test_duration(lab_outcome[NSource + 1]) # None

\* C20: a configured test timeout is never replaced: whatever the baseline's
\* Test phase took, the Test phases of the baseline and of every mutant run
\* with exactly the configured timeout; the lab's Options differ from the
\* caller's only by a derived timeout, and only when none was configured and
\* the baseline recorded a Test phase.
C20_ConfiguredTimeoutIsKept ==
    /\ has_test_timeout(options_arg) =>
          /\ options = options_arg
          /\ \A k \in TestInvocations :
                invocations[k].timeout = options_arg.test_timeout[1]
    /\ options # options_arg =>
          /\ ~has_test_timeout(options_arg)
          /\ BaselineRecordedTest
          /\ options = [options_arg EXCEPT
                !.test_timeout = Some(auto_timeout(BaselineTestDuration))]

\* the baseline's tests took 10s under a configured timeout of 30s, and a
\* mutant's Test phase then ran with 30s, not 50s
C20_Witness ==
    /\ options_arg.test_timeout = Some(ConfiguredTimeout)
    /\ BaselineRecordedTest
    /\ BaselineTestDuration = Dur(10, 0)
    /\ auto_timeout(BaselineTestDuration) = Dur(50, 0)
    /\ \E k \in MutantTestInvocations : invocations[k].timeout = Dur(30, 0)
====
